---- MODULE Spec2Model ----
(***************************************************************************)
(* A model of TCReviewer (src/main.py): the content-addressed review       *)
(* ledger, its persistence in tc_reviews.json, the review session          *)
(* (process_tc_file), the verdict (provide_verdict) and the menu loop.     *)
(*                                                                         *)
(* Texts are sequences of one-character strings over Alphabet.  A process  *)
(* is either off (pc = "off"), at the menu (pc = "menu") or inside         *)
(* process_tc_file (pc = "session").  The file tc_reviews.json outlives    *)
(* the process; the in-memory ledger does not.                             *)
(*                                                                         *)
(* split_into_sections and chunk_by_size are functions of the text alone;  *)
(* SpecSegment applies them to every text of Texts (pc = "text_in", then   *)
(* "segment_out" or "chunk_out"), with the numbers of the code scaled.     *)
(***************************************************************************)
EXTENDS Integers, Sequences, FiniteSets, TLC

VARIABLES
    pc,                 \* "off" | "menu" | "session" | "verdict_in" | "verdict_out"
                        \* | "text_in" | "segment_out" | "chunk_out"
    tc_text,            \* the text given to split_into_sections or chunk_by_size
    disk,               \* the content of db_file
    reviewed_sections,  \* self.reviewed_sections: fingerprint -> record
    sections,           \* the section list of the running session
    idx,                \* 1-based position of the loop of process_tc_file
    new_sections, approved, disapproved, skipped, already_reviewed,
    verdict,            \* the verdict last printed by provide_verdict
    decide_calls,       \* history: calls of review_section in this session
    saves,              \* history: calls of save_database in this session
    report,             \* history: summary of the last completed session
    previous,           \* history: the session before, if over the same sections
    session_base,       \* history: the persisted mapping when the session began
    decided,            \* history: non-skip decisions returned in this session
    reviewed_texts,     \* history: <<text, status>> of every record on file
    since_clear,        \* history: a clear went through and no session ended since
    ev                  \* history: the last thing that happened

vars == <<pc, tc_text, disk, reviewed_sections, sections, idx, new_sections, approved,
          disapproved, skipped, already_reviewed, verdict, decide_calls, saves,
          report, previous, session_base, decided, reviewed_texts, since_clear,
          ev>>

counters == <<new_sections, approved, disapproved, skipped, already_reviewed>>

----------------------------------------------------------------------------
(* Bounds and inputs *)

\* At most this many sections in a document.
MaxSections == 2

\* section[:200] of process_tc_file, scaled to the texts of the model.
PreviewLen == 2

Alphabet == {"a", "A", " "}

Whitespace == {" ", "\n"}

\* The section texts documents are made of: "aa", "Aa " (same text up to case
\* and surrounding whitespace) and "a a" (differs in internal whitespace).
SectionTexts == { <<"a", "a">>, <<"A", "a", " ">>, <<"a", " ", "a">> }

SeqsUpTo(S, n) == UNION { [1..k -> S] : k \in 0..n }

\* What split_into_sections can return: it never returns an empty list.
Documents == SeqsUpTo(SectionTexts, MaxSections) \ { <<>> }

Decisions == {"approved", "disapproved", "skipped"}

\* What open() and json.dump() can do in save_database.
SaveOutcomes == {"ok", "open_error", "write_error"}

\* Answers to "Are you sure you want to clear all reviews? (yes/no)".
Confirmations == {"yes", "YES", "no", "y"}

----------------------------------------------------------------------------
(* hash_section *)

LowerChar(c) == IF c = "A" THEN "a" ELSE c

\* str.lower()
Lower(s) == [i \in 1..Len(s) |-> LowerChar(s[i])]

RECURSIVE LStrip(_)
LStrip(s) == IF s # <<>> /\ Head(s) \in Whitespace THEN LStrip(Tail(s)) ELSE s

RECURSIVE RStrip(_)
RStrip(s) ==
    IF s # <<>> /\ s[Len(s)] \in Whitespace
    THEN RStrip(SubSeq(s, 1, Len(s) - 1))
    ELSE s

\* str.strip()
Strip(s) == RStrip(LStrip(s))

CharCode(c) == CASE c = "a" -> 1 [] c = "A" -> 2 [] c = " " -> 3

\* sha256(...).hexdigest(): a digest that no two texts of the model share,
\* here the text read as a number in base 4 with digits 1..3.
RECURSIVE Digest(_)
Digest(s) ==
    IF s = <<>> THEN 0
    ELSE 4 * Digest(SubSeq(s, 1, Len(s) - 1)) + CharCode(s[Len(s)])

\* A slip: the text is hashed as it stands, without strip() and lower().
hash_section_raw(text) == Digest(text)

hash_section(text) == Digest(Lower(Strip(text)))

----------------------------------------------------------------------------
(* The ledger in memory and on disk *)

EmptyLedger == <<>>

Min(a, b) == IF a < b THEN a ELSE b

\* s[:n]: the first n characters, or all of s when it is shorter.
Prefix(s, n) == SubSeq(s, 1, Min(n, Len(s)))

Record(status, section) ==
    [status |-> status, preview |-> Prefix(section, PreviewLen)]

\* self.reviewed_sections[section_hash] = {...}
Put(ledger, fp, rec) == (fp :> rec) @@ ledger

NoFile == [state |-> "absent", entries |-> {}]

\* A file that json.load rejects: empty or cut short.
Malformed == [state |-> "malformed", entries |-> {}]

\* json.dump: the mapping written out as one object, member by member.
Dump(ledger) ==
    [state |-> "json",
     entries |-> { [fp |-> k, status |-> ledger[k].status,
                    preview |-> ledger[k].preview] : k \in DOMAIN ledger }]

\* json.load of a well-formed file.
Parse(file) ==
    [k \in { e.fp : e \in file.entries } |->
        LET e == CHOOSE x \in file.entries : x.fp = k
        IN  [status |-> e.status, preview |-> e.preview]]

\* A slip: a file that does not parse is taken for an empty ledger.
load_database_reset(file) ==
    IF file.state = "json"
    THEN [ok |-> TRUE, value |-> Parse(file)]
    ELSE [ok |-> TRUE, value |-> EmptyLedger]

load_database(file) ==
    CASE file.state = "absent"    -> [ok |-> TRUE,  value |-> EmptyLedger]
      [] file.state = "malformed" -> [ok |-> FALSE, value |-> EmptyLedger]
      [] OTHER                    -> [ok |-> TRUE,  value |-> Parse(file)]

\* A slip: the mapping is changed in memory and the file is never rewritten.
save_database_stale(ledger, file, outcome) == file

\* save_database: the file after the call, by what open() and json.dump() did.
\* open(..., 'w') truncates the file before anything is written.
save_database(ledger, file, outcome) ==
    CASE outcome = "ok"          -> Dump(ledger)
      [] outcome = "open_error"  -> file
      [] outcome = "write_error" -> Malformed

Event(kind, fp, status) == [kind |-> kind, fp |-> fp, status |-> status]

\* No session has completed since the process data was last cleared.
NoReport == [valid |-> FALSE, sections |-> <<>>, skipped |-> 0, verdict |-> ""]

\* The session before the running one was over other sections, or there was none.
NoPrevious == [valid |-> FALSE, skipped |-> 0, verdict |-> ""]

----------------------------------------------------------------------------
(* provide_verdict *)

\* The loop of provide_verdict over sections[i..], carrying its three flags.
RECURSIVE VerdictFlags(_, _, _, _)
VerdictFlags(secs, ledger, i, flags) ==
    IF i > Len(secs) THEN flags
    ELSE
        LET section_hash == hash_section(secs[i])
            next ==
                IF section_hash \in DOMAIN ledger
                THEN LET status == ledger[section_hash].status
                     IN  IF status = "disapproved"
                         THEN [flags EXCEPT !.has_disapproved = TRUE]
                         ELSE IF status = "approved"
                              THEN [flags EXCEPT !.has_approved = TRUE]
                              ELSE flags
                ELSE [flags EXCEPT !.all_sections_reviewed = FALSE]
        IN  VerdictFlags(secs, ledger, i + 1, next)

\* A slip: the skipped count of the run is not looked at.
provide_verdict_noskip(secs, ledger, skipped_count) ==
    LET flags == VerdictFlags(secs, ledger, 1,
                     [all_sections_reviewed |-> TRUE,
                      has_disapproved |-> FALSE,
                      has_approved |-> FALSE])
    IN  IF ~flags.all_sections_reviewed THEN "INCOMPLETE"
        ELSE IF flags.has_disapproved THEN "CONTAINS_DISAPPROVED"
        ELSE IF flags.has_approved THEN "ALL_APPROVED"
        ELSE "NO_SECTIONS_REVIEWED"

provide_verdict(secs, ledger, skipped_count) ==
    LET scanned == VerdictFlags(secs, ledger, 1,
                       [all_sections_reviewed |-> TRUE,
                        has_disapproved |-> FALSE,
                        has_approved |-> FALSE])
        flags == IF skipped_count > 0
                 THEN [scanned EXCEPT !.all_sections_reviewed = FALSE]
                 ELSE scanned
    IN  IF ~flags.all_sections_reviewed THEN "INCOMPLETE"
        ELSE IF flags.has_disapproved THEN "CONTAINS_DISAPPROVED"
        ELSE IF flags.has_approved /\ ~flags.has_disapproved THEN "ALL_APPROVED"
        ELSE "NO_SECTIONS_REVIEWED"

----------------------------------------------------------------------------
(* The process: main, process_tc_file, clear_database *)

Init ==
    /\ pc = "off"
    /\ disk \in {NoFile, Malformed, Dump(EmptyLedger)}
    /\ reviewed_sections = EmptyLedger
    /\ sections = <<>>
    /\ idx = 0
    /\ new_sections = 0 /\ approved = 0 /\ disapproved = 0
    /\ skipped = 0 /\ already_reviewed = 0
    /\ verdict = ""
    /\ decide_calls = 0
    /\ saves = 0
    /\ report = NoReport
    /\ previous = NoPrevious
    /\ session_base = EmptyLedger
    /\ decided = {}
    /\ reviewed_texts = {}
    /\ since_clear = FALSE
    /\ tc_text = <<>>
    /\ ev = Event("none", 0, "")

\* The locals of process_tc_file, when no session runs.
NoSession ==
    /\ sections' = <<>>
    /\ idx' = 0
    /\ new_sections' = 0 /\ approved' = 0 /\ disapproved' = 0
    /\ skipped' = 0 /\ already_reviewed' = 0
    /\ decide_calls' = 0
    /\ saves' = 0
    /\ session_base' = EmptyLedger
    /\ decided' = {}

\* main() starts: TCReviewer() loads the ledger; an error of json.load is not
\* caught and ends the process before the menu is shown.
Construct ==
    /\ pc = "off"
    /\ LET loaded == load_database(disk)
       IN  /\ pc' = IF loaded.ok THEN "menu" ELSE "off"
           /\ reviewed_sections' = loaded.value
           /\ ev' = Event(IF loaded.ok THEN "loaded" ELSE "load_failed", 0, "")
    /\ NoSession
    /\ verdict' = ""
    /\ since_clear' = FALSE
    /\ UNCHANGED <<tc_text, disk, report, previous, reviewed_texts>>

\* Menu choice 1 with a file selected: process_tc_file up to its loop.
BeginSession(doc) ==
    /\ pc = "menu"
    /\ pc' = "session"
    /\ sections' = doc
    /\ idx' = 1
    /\ new_sections' = 0 /\ approved' = 0 /\ disapproved' = 0
    /\ skipped' = 0 /\ already_reviewed' = 0
    /\ decide_calls' = 0
    /\ saves' = 0
    /\ session_base' = load_database(disk).value
    /\ decided' = {}
    /\ verdict' = ""
    /\ report' = NoReport
    /\ previous' = IF report.valid /\ report.sections = doc
                    THEN [valid |-> TRUE, skipped |-> report.skipped,
                          verdict |-> report.verdict]
                    ELSE NoPrevious
    /\ ev' = Event("begin", 0, "")
    /\ UNCHANGED <<tc_text, disk, reviewed_sections, reviewed_texts, since_clear>>

\* A slip: the lookup never finds a record.
IsReviewed_never(section_hash, ledger) == FALSE

\* if section_hash in self.reviewed_sections
IsReviewed(section_hash, ledger) == section_hash \in DOMAIN ledger

\* A slip: every decision is stored, a skip too.
ShouldRecord_always(status) == TRUE

\* if status != 'skipped'
ShouldRecord(status) == status # "skipped"

\* One turn of the loop of process_tc_file, with what review_section returned
\* and what save_database met.  An error of save_database is not caught: it
\* leaves the loop before the counts are updated and ends the process.
ProcessSection(status, outcome) ==
    /\ pc = "session"
    /\ idx <= Len(sections)
    /\ LET section == sections[idx]
           section_hash == hash_section(section)
       IN  IF IsReviewed(section_hash, reviewed_sections)
           THEN /\ already_reviewed' = already_reviewed + 1
                /\ idx' = idx + 1
                /\ ev' = Event("already", section_hash,
                               reviewed_sections[section_hash].status)
                /\ UNCHANGED <<pc, disk, reviewed_sections, new_sections,
                               approved, disapproved, skipped, decide_calls,
                               saves, decided, reviewed_texts>>
           ELSE /\ new_sections' = new_sections + 1
                /\ decide_calls' = decide_calls + 1
                /\ already_reviewed' = already_reviewed
                /\ IF ShouldRecord(status)
                   THEN /\ reviewed_sections' =
                               Put(reviewed_sections, section_hash,
                                   Record(status, section))
                        /\ disk' = save_database(reviewed_sections', disk, outcome)
                        /\ saves' = saves + 1
                        /\ decided' = decided \cup {<<section_hash, status>>}
                   ELSE /\ UNCHANGED <<reviewed_sections, disk, saves, decided>>
                /\ IF ShouldRecord(status) /\ outcome # "ok"
                   THEN /\ pc' = "off"
                        /\ ev' = Event("save_failed", section_hash, status)
                        /\ UNCHANGED <<idx, approved, disapproved, skipped,
                                       reviewed_texts>>
                   ELSE /\ pc' = pc
                        /\ idx' = idx + 1
                        /\ approved' = approved + (IF status = "approved" THEN 1 ELSE 0)
                        /\ disapproved' =
                               disapproved + (IF status = "disapproved" THEN 1 ELSE 0)
                        /\ skipped' =
                               skipped + (IF status \notin {"approved", "disapproved"}
                                          THEN 1 ELSE 0)
                        /\ reviewed_texts' =
                               IF ShouldRecord(status)
                               THEN reviewed_texts \cup {<<section, status>>}
                               ELSE reviewed_texts
                        /\ ev' = Event("decided", section_hash, status)
    /\ UNCHANGED <<tc_text, sections, verdict, report, previous, session_base,
                   since_clear>>

\* The loop is over: the summary is printed and provide_verdict is called.
Finish ==
    /\ pc = "session"
    /\ idx > Len(sections)
    /\ verdict' = provide_verdict(sections, reviewed_sections, skipped)
    /\ report' =
           [valid |-> TRUE, sections |-> sections, skipped |-> skipped,
            verdict |-> verdict']
    /\ pc' = "menu"
    /\ NoSession
    /\ ev' = Event("finished", 0, "")
    /\ since_clear' = FALSE
    /\ UNCHANGED <<tc_text, disk, reviewed_sections, previous, reviewed_texts>>

\* The process is ended from outside while review_section waits for an answer
\* ("prompt"), or inside save_database after open() emptied the file and before
\* json.dump wrote it out ("truncated").
Abandon(point, status) ==
    /\ pc = "session"
    /\ idx <= Len(sections)
    /\ LET section == sections[idx]
           section_hash == hash_section(section)
       IN  /\ ~IsReviewed(section_hash, reviewed_sections)
           /\ new_sections' = new_sections + 1
           /\ decide_calls' = decide_calls + 1
           /\ IF point = "prompt"
              THEN /\ ev' = Event("abandoned_prompt", section_hash, "")
                   /\ UNCHANGED <<reviewed_sections, disk, saves, decided>>
              ELSE /\ ShouldRecord(status)
                   /\ reviewed_sections' =
                          Put(reviewed_sections, section_hash, Record(status, section))
                   /\ decided' = decided \cup {<<section_hash, status>>}
                   /\ disk' = save_database(reviewed_sections', disk, "write_error")
                   /\ saves' = saves + 1
                   /\ ev' = Event("abandoned_truncated", section_hash, status)
    /\ pc' = "off"
    /\ UNCHANGED <<tc_text, sections, idx, approved, disapproved, skipped,
                   already_reviewed, verdict, report, previous, session_base,
                   reviewed_texts, since_clear>>

\* A slip: the answer is compared as typed.
LowerAnswer_raw(answer) == answer

\* str.lower() of the answers the model gives.
LowerAnswer(answer) == IF answer = "YES" THEN "yes" ELSE answer

\* Menu choice 3.
clear_database(confirm, outcome) ==
    /\ pc = "menu"
    /\ IF LowerAnswer(confirm) = "yes"
       THEN /\ reviewed_sections' = EmptyLedger
            /\ disk' = save_database(reviewed_sections', disk, outcome)
            /\ pc' = IF outcome = "ok" THEN "menu" ELSE "off"
            /\ ev' = Event(IF outcome = "ok" THEN "cleared" ELSE "clear_save_failed",
                           0, confirm)
            /\ since_clear' = (outcome = "ok")
            /\ report' = NoReport
            /\ previous' = NoPrevious
            /\ reviewed_texts' = IF outcome = "open_error" THEN reviewed_texts ELSE {}
       ELSE /\ ev' = Event("clear_cancelled", 0, confirm)
            /\ UNCHANGED <<pc, reviewed_sections, disk, report, previous,
                           reviewed_texts, since_clear>>
    /\ UNCHANGED <<tc_text, sections, idx, new_sections, approved, disapproved,
                   skipped, already_reviewed, verdict, decide_calls, saves,
                   session_base, decided>>

\* Menu choice 4.
Quit ==
    /\ pc = "menu"
    /\ pc' = "off"
    /\ ev' = Event("quit", 0, "")
    /\ UNCHANGED <<tc_text, disk, reviewed_sections, sections, idx, new_sections,
                   approved, disapproved, skipped, already_reviewed, verdict,
                   decide_calls, saves, report, previous, session_base, decided,
                   reviewed_texts, since_clear>>

\* An input that the code never asks for is given one value only: no answer is
\* read for a section already reviewed, and no file is written for a skip.
Used(secs, i, ledger, status, outcome) ==
    /\ i \in 1..Len(secs)
    /\ IsReviewed(hash_section(secs[i]), ledger) => status = "skipped"
    /\ (IsReviewed(hash_section(secs[i]), ledger) \/ ~ShouldRecord(status))
           => outcome = "ok"

Next ==
    \/ Construct
    \/ \E doc \in Documents : BeginSession(doc)
    \/ \E status \in Decisions, outcome \in SaveOutcomes :
           Used(sections, idx, reviewed_sections, status, outcome)
               /\ ProcessSection(status, outcome)
    \/ Finish
    \/ \E point \in {"prompt", "truncated"}, status \in Decisions :
           (point = "prompt" => status = "skipped") /\ Abandon(point, status)
    \/ \E confirm \in Confirmations, outcome \in SaveOutcomes :
           (LowerAnswer(confirm) # "yes" => outcome = "ok")
               /\ clear_database(confirm, outcome)
    \/ Quit

Spec == Init /\ [][Next]_vars

----------------------------------------------------------------------------
(* provide_verdict on its own: any section list, ledger and skipped count *)

Fingerprints == { hash_section(t) : t \in SectionTexts }

\* Ledgers as a file edited by hand can hold them: any status, also 'skipped'.
AnyLedgers ==
    UNION { [D -> [status : Decisions, preview : {<<"a">>}]] :
            D \in SUBSET Fingerprints }

InitVerdict ==
    /\ pc = "verdict_in"
    /\ sections \in SeqsUpTo(SectionTexts, MaxSections)
    /\ reviewed_sections \in AnyLedgers
    /\ skipped \in 0..MaxSections
    /\ disk = NoFile
    /\ idx = 0
    /\ new_sections = 0 /\ approved = 0 /\ disapproved = 0 /\ already_reviewed = 0
    /\ verdict = ""
    /\ decide_calls = 0
    /\ saves = 0
    /\ report = NoReport
    /\ previous = NoPrevious
    /\ session_base = EmptyLedger
    /\ decided = {}
    /\ reviewed_texts = {}
    /\ since_clear = FALSE
    /\ tc_text = <<>>
    /\ ev = Event("none", 0, "")

VerdictCall ==
    /\ pc = "verdict_in"
    /\ pc' = "verdict_out"
    /\ verdict' = provide_verdict(sections, reviewed_sections, skipped)
    /\ UNCHANGED <<tc_text, disk, reviewed_sections, sections, idx, new_sections,
                   approved, disapproved, skipped, already_reviewed, decide_calls,
                   saves, report, previous, session_base, decided, reviewed_texts,
                   since_clear, ev>>

NextVerdict == VerdictCall

SpecVerdict == InitVerdict /\ [][NextVerdict]_vars

----------------------------------------------------------------------------
(* split_into_sections and chunk_by_size *)

\* At most this many blocks in a text.
MaxBlocks == 3

\* The numbers of the code, scaled to the texts of the model; their order is
\* the code's: 5 sections, {5,80} heading characters, 100, 200, 300 and 2000
\* characters.
MinSections == 2

HeadingMin == 1

HeadingMax == 2

ParagraphChars == 2

LineChars == 3

MinChars == 4

MaxChars == 8

Upper == {"A", "B", "S"}

Digits == {"1"}

\* [A-Z\s&'-]
HeadingChars == Upper \cup Whitespace \cup {"&", "'", "-"}

\* [.!?]
Terminators == {".", "!", "?"}

\* A heading line, a numbered item, an article, a section and a sentence.
Blocks ==
    { <<"A", "B">>,
      <<"1", ".", " ", "a">>,
      <<"A", "r", "t", "i", "c", "l", "e", " ", "1">>,
      <<"S", "e", "c", "t", "i", "o", "n", " ", "1">>,
      <<"a", "a", ".">> }

Separators == { <<" ">>, <<"\n">>, <<"\n", "\n">> }

\* What a text may begin and end with: nothing, or an empty line.
Edges == { <<>>, <<"\n">> }

RECURSIVE Interleave(_, _)
Interleave(blocks, seps) ==
    IF blocks = <<>> THEN <<>>
    ELSE IF Len(blocks) = 1 THEN blocks[1]
    ELSE blocks[1] \o seps[1] \o Interleave(Tail(blocks), Tail(seps))

\* The texts read from a T&C file: blocks with separators between them, from
\* the empty text upwards.
Texts ==
    UNION { { edge \o Interleave(blocks, seps) \o edge :
                blocks \in [1..k -> Blocks],
                seps \in [1..(IF k = 0 THEN 0 ELSE k - 1) -> Separators],
                edge \in Edges } :
            k \in 0..MaxBlocks }

\* The character at position i, or "" past either end of the text.
At(t, i) == IF i \in 1..Len(t) THEN t[i] ELSE ""

StartsWith(t, i, word) ==
    /\ i >= 1
    /\ i + Len(word) - 1 <= Len(t)
    /\ SubSeq(t, i, i + Len(word) - 1) = word

\* \n(?=[A-Z][A-Z\s&'-]{5,80}\n) matches at position i.
HeadingAt(t, i) ==
    /\ At(t, i) = "\n"
    /\ At(t, i + 1) \in Upper
    /\ \E k \in HeadingMin..HeadingMax :
           /\ \A j \in 1..k : At(t, i + 1 + j) \in HeadingChars
           /\ At(t, i + 2 + k) = "\n"

\* \n(?=\d+\.\s) matches at position i.
NumberedAt(t, i) ==
    /\ At(t, i) = "\n"
    /\ \E d \in 1..Len(t) :
           /\ \A j \in 1..d : At(t, i + j) \in Digits
           /\ At(t, i + d + 1) = "."
           /\ At(t, i + d + 2) \in Whitespace

\* \n(?=Article\s+\d+) and \n(?=Section\s+\d+) match at position i.
KeywordAt(word, t, i) ==
    /\ At(t, i) = "\n"
    /\ StartsWith(t, i + 1, word)
    /\ \E w \in 1..Len(t) :
           /\ \A j \in 1..w : At(t, i + Len(word) + j) \in Whitespace
           /\ At(t, i + Len(word) + w + 1) \in Digits

\* patterns, in the order of the list.
patterns == <<"heading", "numbered", "article", "section">>

PatternAt(pattern, t, i) ==
    CASE pattern = "heading" -> HeadingAt(t, i)
      [] pattern = "numbered" -> NumberedAt(t, i)
      [] pattern = "article" ->
             KeywordAt(<<"A", "r", "t", "i", "c", "l", "e">>, t, i)
      [] pattern = "section" ->
             KeywordAt(<<"S", "e", "c", "t", "i", "o", "n">>, t, i)

\* The pieces between the separators, leftmost first; lens[i] is the length of
\* the separator that begins at position i, 0 where none begins.
RECURSIVE SplitBy(_, _, _, _)
SplitBy(t, lens, i, start) ==
    IF i > Len(t) THEN << SubSeq(t, start, Len(t)) >>
    ELSE IF lens[i] > 0
         THEN << SubSeq(t, start, i - 1) >>
                  \o SplitBy(t, lens, i + lens[i], i + lens[i])
         ELSE SplitBy(t, lens, i + 1, start)

\* re.split(pattern, text)
re_split(pattern, t) ==
    SplitBy(t, [i \in 1..Len(t) |-> IF PatternAt(pattern, t, i) THEN 1 ELSE 0], 1, 1)

\* text.split(sep)
str_split(t, sep) ==
    SplitBy(t, [i \in 1..Len(t) |-> IF StartsWith(t, i, sep) THEN Len(sep) ELSE 0],
            1, 1)

\* The length of the run of whitespace that begins at position i.
SpaceRun(t, i) ==
    CHOOSE n \in 0..Len(t) :
        /\ \A j \in 0..(n - 1) : At(t, i + j) \in Whitespace
        /\ At(t, i + n) \notin Whitespace

\* re.split(r'(?<=[.!?])\s+', text)
SplitSentences(t) ==
    SplitBy(t, [i \in 1..Len(t) |->
                   IF At(t, i - 1) \in Terminators THEN SpaceRun(t, i) ELSE 0],
            1, 1)

\* [s.strip() for s in pieces]
Stripped(pieces) == [i \in 1..Len(pieces) |-> Strip(pieces[i])]

\* A slip: the pieces are trimmed and the empty ones are kept.
StrippedNonEmpty_keep(pieces) == Stripped(pieces)

\* [s.strip() for s in pieces if s.strip()]
StrippedNonEmpty(pieces) == SelectSeq(Stripped(pieces), LAMBDA s : s # <<>>)

\* [s.strip() for s in pieces if len(s.strip()) > n]
StrippedLonger(pieces, n) == SelectSeq(Stripped(pieces), LAMBDA s : Len(s) > n)

\* ' '.join(parts)
RECURSIVE Join(_)
Join(parts) ==
    IF parts = <<>> THEN <<>>
    ELSE IF Len(parts) = 1 THEN parts[1]
    ELSE parts[1] \o <<" ">> \o Join(Tail(parts))

\* The loop of chunk_by_size from sentence k on.
RECURSIVE ChunkLoop(_, _, _, _, _, _, _)
ChunkLoop(sentences, k, chunks, current_chunk, current_length, min_chars, max_chars) ==
    IF k > Len(sentences)
    THEN [chunks |-> chunks, current_chunk |-> current_chunk,
          current_length |-> current_length]
    ELSE LET sentence == sentences[k]
             sentence_length == Len(sentence)
         IN  IF /\ current_length + sentence_length > max_chars
                /\ current_length >= min_chars
             THEN ChunkLoop(sentences, k + 1,
                            Append(chunks, Join(current_chunk)),
                            <<sentence>>, sentence_length,
                            min_chars, max_chars)
             ELSE ChunkLoop(sentences, k + 1, chunks,
                            Append(current_chunk, sentence),
                            current_length + sentence_length + 1,
                            min_chars, max_chars)

\* A slip: no chunk, no section.
ChunksOrText_none(chunks, t) == chunks

\* return chunks if chunks else [text]
ChunksOrText(chunks, t) == IF chunks # <<>> THEN chunks ELSE <<t>>

\* A slip: a remainder below min_chars is dropped when chunks exist.
Remainder_drop(chunks, current_chunk, current_length, min_chars) ==
    IF current_chunk # <<>> /\ current_length >= min_chars
    THEN Append(chunks, Join(current_chunk))
    ELSE chunks

\* The chunks after the loop: the remainder is a chunk of its own when it has
\* reached min_chars, and is added to the last chunk otherwise.
Remainder(chunks, current_chunk, current_length, min_chars) ==
    IF current_chunk # <<>> /\ current_length >= min_chars
    THEN Append(chunks, Join(current_chunk))
    ELSE IF current_chunk # <<>> /\ chunks # <<>>
         THEN [chunks EXCEPT ![Len(chunks)] = @ \o <<" ">> \o Join(current_chunk)]
         ELSE chunks

chunk_by_size(t, min_chars, max_chars) ==
    LET end == ChunkLoop(SplitSentences(t), 1, <<>>, <<>>, 0, min_chars, max_chars)
    IN  ChunksOrText(Remainder(end.chunks, end.current_chunk,
                               end.current_length, min_chars), t)

\* The section list after the loop over the patterns: the pieces of the first
\* pattern that splits the text into more than 5 pieces, [] when none does.
PatternSections(t) ==
    LET accepted == { k \in 1..Len(patterns) :
                          Len(re_split(patterns[k], t)) > MinSections }
    IN  IF accepted = {} THEN <<>>
        ELSE StrippedNonEmpty(
                 re_split(patterns[CHOOSE k \in accepted :
                                       \A other \in accepted : k <= other], t))

ParagraphSections(t) == StrippedLonger(str_split(t, <<"\n", "\n">>), ParagraphChars)

LineSections(t) == StrippedLonger(str_split(t, <<"\n">>), LineChars)

split_into_sections(t) ==
    LET by_pattern == PatternSections(t)
        by_paragraph == IF Len(by_pattern) < MinSections
                        THEN ParagraphSections(t) ELSE by_pattern
        by_line == IF Len(by_paragraph) < MinSections
                   THEN LineSections(t) ELSE by_paragraph
    IN  IF Len(by_line) < MinSections
        THEN chunk_by_size(t, MinChars, MaxChars)
        ELSE by_line

InitSegment ==
    /\ pc = "text_in"
    /\ tc_text \in Texts
    /\ disk = NoFile
    /\ reviewed_sections = EmptyLedger
    /\ sections = <<>>
    /\ idx = 0
    /\ new_sections = 0 /\ approved = 0 /\ disapproved = 0
    /\ skipped = 0 /\ already_reviewed = 0
    /\ verdict = ""
    /\ decide_calls = 0
    /\ saves = 0
    /\ report = NoReport
    /\ previous = NoPrevious
    /\ session_base = EmptyLedger
    /\ decided = {}
    /\ reviewed_texts = {}
    /\ since_clear = FALSE
    /\ ev = Event("none", 0, "")

\* sections = self.split_into_sections(text)
SegmentCall ==
    /\ pc = "text_in"
    /\ pc' = "segment_out"
    /\ sections' = split_into_sections(tc_text)
    /\ UNCHANGED <<tc_text, disk, reviewed_sections, idx, new_sections, approved,
                   disapproved, skipped, already_reviewed, verdict, decide_calls,
                   saves, report, previous, session_base, decided, reviewed_texts,
                   since_clear, ev>>

\* self.chunk_by_size(text, min_chars=300, max_chars=2000)
ChunkCall ==
    /\ pc = "text_in"
    /\ pc' = "chunk_out"
    /\ sections' = chunk_by_size(tc_text, MinChars, MaxChars)
    /\ UNCHANGED <<tc_text, disk, reviewed_sections, idx, new_sections, approved,
                   disapproved, skipped, already_reviewed, verdict, decide_calls,
                   saves, report, previous, session_base, decided, reviewed_texts,
                   since_clear, ev>>

NextSegment == SegmentCall \/ ChunkCall

SpecSegment == InitSegment /\ [][NextSegment]_vars

----------------------------------------------------------------------------
(* Properties *)

Alive == pc \in {"menu", "session"}

Stored == {"approved", "disapproved"}

\* C1: no entry of the ledger, in memory or in the file, has status 'skipped':
\* every stored status is 'approved' or 'disapproved'.
C1_NeverSkipped ==
    /\ \A fp \in DOMAIN reviewed_sections : reviewed_sections[fp].status \in Stored
    /\ \A e \in disk.entries : e.status \in Stored

\* A skip was just decided in a session and left no record anywhere.
C1_Witness ==
    /\ pc = "session"
    /\ ev.kind = "decided" /\ ev.status = "skipped"
    /\ skipped > 0
    /\ ev.fp \notin DOMAIN reviewed_sections
    /\ \A e \in disk.entries : e.fp # ev.fp

\* The step is a confirmed clear (whether or not its save went through).
ConfirmedClear == ev'.kind \in {"cleared", "clear_save_failed"}

\* The step cut the file short: a write that failed or was interrupted after
\* open() had emptied the file.
FileCutShort == disk'.state = "malformed" /\ disk.state # "malformed"

C3_VerdictPrecedence ==
    pc = "verdict_out" =>
        LET Has(status) ==
                \E i \in 1..Len(sections) :
                    /\ hash_section(sections[i]) \in DOMAIN reviewed_sections
                    /\ reviewed_sections[hash_section(sections[i])].status = status
            missing ==
                \E i \in 1..Len(sections) :
                    hash_section(sections[i]) \notin DOMAIN reviewed_sections
            incomplete == missing \/ skipped > 0
        IN  /\ incomplete => verdict = "INCOMPLETE"
            /\ (~incomplete /\ Has("disapproved"))
                   => verdict = "CONTAINS_DISAPPROVED"
            /\ (~incomplete /\ ~Has("disapproved") /\ Has("approved"))
                   => verdict = "ALL_APPROVED"
            /\ (~incomplete /\ ~Has("disapproved") /\ ~Has("approved"))
                   => verdict = "NO_SECTIONS_REVIEWED"

\* All sections have a record, one approved and one disapproved, none skipped.
C3_Witness ==
    /\ pc = "verdict_out"
    /\ skipped = 0
    /\ verdict = "CONTAINS_DISAPPROVED"
    /\ \E i \in 1..Len(sections) :
           /\ hash_section(sections[i]) \in DOMAIN reviewed_sections
           /\ reviewed_sections[hash_section(sections[i])].status = "approved"

\* C4: whenever the process waits for input (at the menu, or in a session
\* between two sections), the file holds exactly the in-memory mapping.
C4_DiskEqualsMemory ==
    Alive =>
        /\ load_database(disk).ok
        /\ load_database(disk).value = reviewed_sections

\* A record was just inserted and saved, and the session goes on.
C4_Witness ==
    /\ pc = "session"
    /\ ev.kind = "decided" /\ ev.status \in Stored
    /\ ev.fp \in DOMAIN reviewed_sections
    /\ saves > 0

\* C5: a session over the section list of the session before it, in which
\* nothing was skipped, with no clear in between, calls review_section for no
\* section, counts every section as already reviewed and none as new, writes
\* nothing to the ledger or the file, and ends with the same verdict.
C5_RerunIdempotent ==
    /\ (pc = "session" /\ previous.valid /\ previous.skipped = 0)
           => /\ decide_calls = 0
              /\ new_sections = 0
              /\ saves = 0
              /\ already_reviewed = idx - 1
              /\ approved = 0 /\ disapproved = 0 /\ skipped = 0
              /\ reviewed_sections = session_base
              /\ load_database(disk).value = session_base
    /\ (pc = "menu" /\ report.valid /\ previous.valid /\ previous.skipped = 0)
           => /\ report.verdict = previous.verdict
              /\ report.skipped = 0

\* A second session over the same two or more sections has completed, the
\* first having decided them all, one of them disapproved.
C5_Witness ==
    /\ pc = "menu"
    /\ ev.kind = "finished"
    /\ report.valid /\ previous.valid /\ previous.skipped = 0
    /\ Len(report.sections) >= 2
    /\ report.verdict = "CONTAINS_DISAPPROVED"

\* C6: in a session the sections are taken in document order, one per step;
\* review_section is called for a section exactly when its fingerprint has no
\* record at that moment, and a section that has one is counted as already
\* reviewed with no call and no write.
C6_DecideIffAbsent ==
    [][ (pc = "session" /\ idx <= Len(sections)) =>
          LET present == hash_section(sections[idx]) \in DOMAIN reviewed_sections
          IN  /\ sections' = sections
              /\ decide_calls' = decide_calls + (IF present THEN 0 ELSE 1)
              /\ present => /\ idx' = idx + 1
                            /\ already_reviewed' = already_reviewed + 1
                            /\ new_sections' = new_sections
                            /\ saves' = saves
                            /\ UNCHANGED <<reviewed_sections, disk>>
              /\ ~present => /\ already_reviewed' = already_reviewed
                             /\ new_sections' = new_sections + 1
              /\ pc' = "session" => idx' = idx + 1
              /\ pc' # "session" => idx' = idx
      ]_vars

\* In one session a section was decided and a later one was found reviewed.
C6_Witness ==
    /\ pc = "session"
    /\ idx = 3
    /\ decide_calls = 1 /\ new_sections = 1 /\ already_reviewed = 1
    /\ ev.kind = "already"

\* Same letter up to case.
SameLetter(a, b) == a = b \/ {a, b} = {"a", "A"}

\* The first character of s that is not leading whitespace (Len(s) + 1 if none).
CoreStart(s) ==
    CHOOSE i \in 1..(Len(s) + 1) :
        /\ \A k \in 1..(i - 1) : s[k] \in Whitespace
        /\ i <= Len(s) => s[i] \notin Whitespace

\* The last character of s that is not trailing whitespace (0 if none).
CoreEnd(s) ==
    CHOOSE j \in 0..Len(s) :
        /\ \A k \in (j + 1)..Len(s) : s[k] \in Whitespace
        /\ j >= 1 => s[j] \notin Whitespace

CoreLen(s) == IF CoreEnd(s) < CoreStart(s) THEN 0 ELSE CoreEnd(s) - CoreStart(s) + 1

\* s and t are equal after stripping surrounding whitespace and lowercasing.
SameNormalForm(s, t) ==
    /\ CoreLen(s) = CoreLen(t)
    /\ \A k \in 0..(CoreLen(s) - 1) :
           SameLetter(s[CoreStart(s) + k], t[CoreStart(t) + k])

\* The pairs of section texts that are equal after that.
SameNormalPairs ==
    UNION { IF SameNormalForm(st[1], st[2]) THEN {st} ELSE {} :
            st \in SectionTexts \X SectionTexts }

\* C7: decisions are addressed by content.  A text equal, after stripping and
\* lowercasing, to a text whose decision is on record has the same fingerprint
\* and finds that one record, so it is given the recorded decision without a
\* call of review_section; a text that differs after that from every recorded
\* text has another fingerprint and is reviewed on its own.
C7_ContentAddressed ==
    [][ Alive =>
          /\ \A p \in reviewed_texts, t \in SectionTexts :
                IF <<p[1], t>> \in SameNormalPairs
                THEN /\ hash_section(t) = hash_section(p[1])
                     /\ hash_section(t) \in DOMAIN reviewed_sections
                     /\ reviewed_sections[hash_section(t)].status = p[2]
                ELSE hash_section(t) # hash_section(p[1])
          /\ \A p, q \in reviewed_texts : <<p[1], q[1]>> \in SameNormalPairs => p = q
          /\ Cardinality(DOMAIN reviewed_sections) = Cardinality(reviewed_texts)
          /\ (pc = "session" /\ idx <= Len(sections)) =>
                LET t == sections[idx]
                    known == { p \in reviewed_texts : <<p[1], t>> \in SameNormalPairs }
                IN  IF known # {}
                    THEN /\ decide_calls' = decide_calls
                         /\ ev'.kind = "already"
                         /\ \E p \in known : ev'.status = p[2]
                    ELSE decide_calls' = decide_calls + 1
      ]_vars

\* A section was given the decision recorded for another text, which differs
\* from it in case and surrounding whitespace, with no call of review_section.
C7_Witness ==
    /\ pc = "session"
    /\ ev.kind = "already"
    /\ decide_calls = 0
    /\ \E p \in reviewed_texts :
           /\ p[1] # sections[idx - 1]
           /\ <<p[1], sections[idx - 1]>> \in SameNormalPairs
           /\ p[2] = ev.status
    /\ \E p \in reviewed_texts : <<p[1], sections[idx - 1]>> \notin SameNormalPairs

\* C8 (as claimed): when save_database fails while a decision is recorded, the
\* fingerprint has no record in memory or in the file, the records persisted
\* before are still in the file, and no run count was incremented for it.
C8_FailedSaveLeavesNoRecord ==
    (pc = "off" /\ ev.kind = "save_failed") =>
        /\ ev.fp \notin DOMAIN reviewed_sections
        /\ load_database(disk).ok
        /\ ev.fp \notin DOMAIN load_database(disk).value
        /\ \A fp \in DOMAIN session_base :
               /\ fp \in DOMAIN load_database(disk).value
               /\ load_database(disk).value[fp] = session_base[fp]
        /\ already_reviewed + approved + disapproved + skipped = idx - 1

\* C9 (as claimed): when the process ends during a session, the ledger the
\* next process loads holds every record persisted before the session and a
\* record for every non-skip decision review_section returned in it.
C9_AbandonKeepsEveryDecision ==
    (pc = "off" /\ ev.kind \in {"abandoned_prompt", "abandoned_truncated"}) =>
        /\ load_database(disk).ok
        /\ \A fp \in DOMAIN session_base :
               /\ fp \in DOMAIN load_database(disk).value
               /\ load_database(disk).value[fp] = session_base[fp]
        /\ \A d \in decided :
               /\ d[1] \in DOMAIN load_database(disk).value
               /\ load_database(disk).value[d[1]].status = d[2]

\* C10: when the file exists and does not parse, starting the process fails:
\* no menu is reached, so no session starts, and the file is left as it was;
\* when there is no file, the process starts with the empty mapping and the
\* file is not created.
C10_LoadFailsOnMalformed ==
    [][ pc = "off" =>
          /\ disk' = disk
          /\ disk.state = "malformed" => (pc' = "off" /\ ev'.kind = "load_failed")
          /\ disk.state = "absent" =>
                (pc' = "menu" /\ reviewed_sections' = EmptyLedger)
      ]_vars

\* Loading a file that does not parse has just failed; the file is as it was.
C10_Witness ==
    /\ pc = "off"
    /\ ev.kind = "load_failed"
    /\ disk = Malformed

\* review_section returned 'approved' every time it was called in this session.
AlwaysApproved ==
    /\ saves = decide_calls
    /\ \A d \in decided : d[2] = "approved"

\* The loop of process_tc_file is over and the summary is about to be printed.
LoopDone == pc = "session" /\ idx > Len(sections)

\* The number of distinct fingerprints among the sections of the session.
DistinctFingerprints ==
    Cardinality({ hash_section(sections[i]) : i \in 1..Len(sections) })

\* C15 (as claimed): from an empty ledger, a session over N sections in which
\* every decision is 'approved' reports total N, 0 already reviewed, N new,
\* N approved, 0 disapproved, 0 skipped and the verdict ALL_APPROVED.
C15_AllNewAllApproved ==
    [][ (LoopDone /\ session_base = EmptyLedger /\ AlwaysApproved) =>
          /\ already_reviewed = 0
          /\ new_sections = Len(sections)
          /\ approved = Len(sections)
          /\ disapproved = 0 /\ skipped = 0
          /\ verdict' = "ALL_APPROVED"
      ]_vars

\* C15 (amended): from an empty ledger, a session over N sections in which
\* every decision is 'approved' reports total N, as many new and approved
\* sections as the sections have distinct fingerprints, the other sections as
\* already reviewed, 0 disapproved, 0 skipped and the verdict ALL_APPROVED.
C15_NewPerFingerprint ==
    [][ (LoopDone /\ session_base = EmptyLedger /\ AlwaysApproved) =>
          /\ new_sections = DistinctFingerprints
          /\ approved = DistinctFingerprints
          /\ already_reviewed = Len(sections) - DistinctFingerprints
          /\ disapproved = 0 /\ skipped = 0
          /\ verdict' = "ALL_APPROVED"
          /\ report'.sections = sections /\ report'.verdict = verdict'
      ]_vars

\* Two sections with different fingerprints were both approved, from an empty
\* ledger.
C15_Witness ==
    /\ LoopDone
    /\ session_base = EmptyLedger
    /\ AlwaysApproved
    /\ Len(sections) = 2
    /\ approved = 2

\* C17: a 'skipped' decision changes neither the mapping in memory nor the
\* file and calls save_database not at all; the new and the skipped count go
\* up by one and no other count changes.
C17_SkipLeavesLedger ==
    [][ (ev'.kind = "decided" /\ ev'.status = "skipped") =>
          /\ pc = "session" /\ pc' = "session"
          /\ UNCHANGED <<reviewed_sections, disk, saves>>
          /\ new_sections' = new_sections + 1
          /\ skipped' = skipped + 1
          /\ UNCHANGED <<approved, disapproved, already_reviewed, sections,
                         verdict>>
      ]_vars

\* A section was approved and another one skipped: the ledger holds one record.
C17_Witness ==
    /\ pc = "session"
    /\ ev.kind = "decided" /\ ev.status = "skipped"
    /\ skipped = 1 /\ approved = 1 /\ new_sections = 2
    /\ saves = 1
    /\ DOMAIN reviewed_sections = { d[1] : d \in decided }

\* C19: in a session, after each section, already reviewed + new is the
\* number of sections processed, approved + disapproved + skipped is new, and
\* the records added to the ledger (in memory and in the file) since the
\* session began number approved + disapproved.
C19_CountsAddUp ==
    pc = "session" =>
        /\ already_reviewed + new_sections = idx - 1
        /\ approved + disapproved + skipped = new_sections
        /\ DOMAIN session_base \subseteq DOMAIN reviewed_sections
        /\ Cardinality(DOMAIN reviewed_sections \ DOMAIN session_base)
               = approved + disapproved
        /\ Cardinality({ e.fp : e \in disk.entries } \ DOMAIN session_base)
               = approved + disapproved

\* A session has ended in which one section was already reviewed and the
\* other one was skipped.
C19_Witness ==
    /\ LoopDone
    /\ Len(sections) = 2
    /\ already_reviewed = 1 /\ skipped = 1 /\ new_sections = 1

IsYes(answer) == answer \in {"yes", "YES"}

ClearKinds == {"cleared", "clear_save_failed", "clear_cancelled"}

----------------------------------------------------------------------------
(* Properties of split_into_sections and chunk_by_size *)

\* The non-empty trimmed pieces of the text split on the k-th pattern.
NonEmptyPieces(k, t) == SelectSeq(Stripped(re_split(patterns[k], t)), LAMBDA s : s # <<>>)

\* The patterns that yield more than the threshold of non-empty trimmed pieces.
Clearing(t) == { k \in 1..Len(patterns) : Len(NonEmptyPieces(k, t)) > MinSections }

FirstOf(S) == CHOOSE k \in S : \A other \in S : k <= other

\* What the strategies after the pattern step return when no pattern was
\* accepted.
Fallbacks(t) ==
    IF Len(ParagraphSections(t)) >= MinSections THEN ParagraphSections(t)
    ELSE IF Len(LineSections(t)) >= MinSections THEN LineSections(t)
    ELSE chunk_by_size(t, MinChars, MaxChars)

\* C11: a pattern is accepted exactly when it yields more non-empty trimmed
\* pieces than the threshold: the result is the non-empty trimmed pieces of the
\* first such pattern in the order heading, numbered, Article, Section, and
\* the result of the later strategies when there is no such pattern.
C11_PatternThreshold ==
    pc = "segment_out" =>
        sections = IF Clearing(tc_text) # {}
                   THEN NonEmptyPieces(FirstOf(Clearing(tc_text)), tc_text)
                   ELSE Fallbacks(tc_text)

\* C12: when no pattern yields more non-empty trimmed pieces than the
\* threshold and the paragraph split yields at least the threshold, the result
\* is the paragraph split.  (That a later strategy is the result only when the
\* one before it yields fewer follows: a paragraph split that yields enough is
\* the result.)
C12_FallbackOrder ==
    (/\ pc = "segment_out"
     /\ Clearing(tc_text) = {}
     /\ Len(ParagraphSections(tc_text)) >= MinSections)
        => sections = ParagraphSections(tc_text)

NoneBlank(secs) == \A i \in 1..Len(secs) : Strip(secs[i]) # <<>>

\* C13 as the specification words it: for every text, every section returned
\* by split_into_sections is non-empty after trimming.
C13_NoBlankSection == pc = "segment_out" => NoneBlank(sections)

\* C13, amended: for every text with a character that is not whitespace,
\* every section returned by split_into_sections is non-empty after trimming,
\* whichever strategy produced it; an empty text or one of whitespace only is
\* returned as it is, as the only section.
C13_NoBlankSectionOfText ==
    pc = "segment_out" =>
        IF Strip(tc_text) = <<>>
        THEN sections = <<tc_text>>
        ELSE NoneBlank(sections)

\* Size chunking produced two sections of a text that begins with a newline.
C13_Witness ==
    /\ pc = "segment_out"
    /\ sections = chunk_by_size(tc_text, MinChars, MaxChars)
    /\ Len(sections) = 2
    /\ Head(tc_text) = "\n"

\* The length the loop of chunk_by_size has added up after the last sentence
\* when it never closed a chunk.
RECURSIVE Accumulated(_)
Accumulated(sentences) ==
    IF sentences = <<>> THEN 0
    ELSE Len(Head(sentences)) + 1 + Accumulated(Tail(sentences))

AllBelowThreshold(t) ==
    /\ Len(PatternSections(t)) < MinSections
    /\ Len(ParagraphSections(t)) < MinSections
    /\ Len(LineSections(t)) < MinSections

\* C14: split_into_sections never returns an empty list; when the pattern,
\* paragraph and line strategies all give fewer sections than the threshold the
\* result is that of chunk_by_size, which returns at least one chunk, and the
\* text itself as the only chunk when the sentences never add up to min_chars.
C14_NeverEmpty ==
    /\ pc = "segment_out"
           => /\ sections # <<>>
              /\ AllBelowThreshold(tc_text)
                     => sections = chunk_by_size(tc_text, MinChars, MaxChars)
    /\ pc = "chunk_out"
           => /\ sections # <<>>
              /\ Accumulated(SplitSentences(tc_text)) < MinChars
                     => sections = <<tc_text>>

\* A text of one short heading went through every strategy and came back as
\* the only section.
C14_Witness ==
    /\ pc = "segment_out"
    /\ tc_text # <<>> /\ Strip(tc_text) # <<>>
    /\ AllBelowThreshold(tc_text)
    /\ Accumulated(SplitSentences(tc_text)) < MinChars
    /\ sections = <<tc_text>>

\* C18: when chunk_by_size returns more than one chunk, the text of every
\* chunk is at least min_chars long.
C18_NoUndersizedChunk ==
    (pc = "chunk_out" /\ Len(sections) > 1) =>
        \A i \in 1..Len(sections) : Len(sections[i]) >= MinChars

\* C20: the chunks of chunk_by_size joined with single spaces are the
\* sentences joined with single spaces, in their order, or the result is the
\* text itself as the only chunk.
C20_NothingLost ==
    pc = "chunk_out" =>
        \/ Join(sections) = Join(SplitSentences(tc_text))
        \/ sections = <<tc_text>>

\* Three sentences: the first two were closed as a chunk and the third, too
\* short for a chunk of its own, was added to it.
C20_Witness ==
    /\ pc = "chunk_out"
    /\ Len(SplitSentences(tc_text)) = 3
    /\ Len(sections) = 1
    /\ sections # <<tc_text>>
    /\ Accumulated(SubSeq(SplitSentences(tc_text), 1, 2)) >= MinChars
    /\ Len(SplitSentences(tc_text)[3]) < MinChars
    /\ Accumulated(SplitSentences(tc_text)) - 1 > MaxChars

====
